---- MODULE Spec2Model ----
(***************************************************************************)
(* A model of lisp.py: the tokenizer, the recursive-descent parser, the    *)
(* tree-walking evaluator with its environments, and the two entry points  *)
(* repl() and run_file().                                                  *)
(*                                                                         *)
(* Text is a sequence of one-character strings; a token is a non-empty     *)
(* sequence of characters.  Every Python object the interpreter handles is *)
(* a record with a kind field and a value field (a Lambda has the fields   *)
(* arguments and code instead of value, as in the source).                 *)
(***************************************************************************)
EXTENDS Integers, Sequences, FiniteSets, TLC

\* ------------------------------------------------------------------ bounds
\* Longest text the exhaustive tokenizer/parser specification enumerates.
MaxTextLen == 5
\* Number of input lines one REPL session reads before the model stops
\* offering more (the loop of repl() itself is unbounded).
MaxLines == 3
\* Number of executions (repl() or run_file() calls) in one process.
MaxRuns == 2
\* Stand-in for the host's recursion limit: eval_expr nesting deeper than
\* this raises RecursionError, an ordinary Exception.
MaxDepth == 4

\* ------------------------------------------------------------- characters
Digits == {"0", "1", "2", "3", "4", "5", "6", "7", "8", "9"}

DigitVal(c) ==
    CASE c = "0" -> 0 [] c = "1" -> 1 [] c = "2" -> 2 [] c = "3" -> 3
      [] c = "4" -> 4 [] c = "5" -> 5 [] c = "6" -> 6 [] c = "7" -> 7
      [] c = "8" -> 8 [] c = "9" -> 9

Quote == "'"

\* lisp.py:54 -- the three whitespace characters the scanner knows
Whitespace == {"\t", "\n", " "}

\* lisp.py:59
Parens == {"(", ")"}

\* lisp.py:67 -- the lookahead set
Delimiters == Parens \cup Whitespace

\* ---------------------------------------------------------------- tokenize
\* The scanner state is ret, in_string and current_word of lisp.py:36-38.
\* scan_char is one turn of the loop of lisp.py:40-69: the state after the
\* character s[i], from the state p before it.
scan_char(p, s, i) ==
    LET char == s[i]
        word == Append(p.current_word, char)
    IN  CASE char = Quote /\ ~p.in_string ->
               [p EXCEPT !.in_string = TRUE, !.current_word = word]
          [] char = Quote /\ p.in_string ->
               [ret |-> Append(p.ret, word), in_string |-> FALSE,
                current_word |-> <<>>]
          [] char # Quote /\ p.in_string -> [p EXCEPT !.current_word = word]
          [] char \in Whitespace /\ ~p.in_string ->
               IF p.current_word # <<>>
                 THEN [p EXCEPT !.ret = Append(p.ret, p.current_word),
                                !.current_word = <<>>]
                 ELSE p
          [] char \in Parens /\ ~p.in_string ->
               IF p.current_word # <<>>
                 THEN [p EXCEPT !.ret = Append(Append(p.ret, p.current_word),
                                               <<char>>),
                                !.current_word = <<>>]
                 ELSE [p EXCEPT !.ret = Append(p.ret, <<char>>)]
          [] OTHER ->
               IF i < Len(s) /\ s[i + 1] \in Delimiters
                 THEN [p EXCEPT !.ret = Append(p.ret, word),
                                !.current_word = <<>>]
                 ELSE [p EXCEPT !.current_word = word]

\* v, evaluated here and now (the value is v either way)
Now(v) == v = v

\* The loop of lisp.py:40 over the characters lo..hi, from the state p.  The
\* range is run as its first half and then its second, which is the same
\* left-to-right loop with a nesting of log(hi - lo) instead of hi - lo.
RECURSIVE Scan(_, _, _, _)
Scan(p, s, lo, hi) ==
    CASE lo > hi -> p
      [] lo = hi -> scan_char(p, s, lo)
      [] OTHER ->
           LET mid  == (lo + hi) \div 2
               left == Scan(p, s, lo, mid)
           IN  IF Now(left) THEN Scan(left, s, mid + 1, hi) ELSE p

\* lisp.py:35-74
tokenize(s) ==
    LET start == [ret |-> <<>>, in_string |-> FALSE, current_word |-> <<>>]
        f     == Scan(start, s, 1, Len(s))
    IN  IF f.current_word # <<>> THEN Append(f.ret, f.current_word) ELSE f.ret

\* ------------------------------------------------------- token classifiers


\* Digits with single underscores between them, as int() and float() accept.
DigitGroup(s) ==
    /\ Len(s) >= 1
    /\ s[1] \in Digits /\ s[Len(s)] \in Digits
    /\ \A k \in 1..Len(s) : s[k] \in Digits \cup {"_"}
    /\ \A k \in 1..(Len(s) - 1) : ~(s[k] = "_" /\ s[k + 1] = "_")

Unsigned(s) == IF Len(s) >= 1 /\ s[1] \in {"+", "-"} THEN Tail(s) ELSE s

\* int(s) succeeds: an optional sign and a group of decimal digits.
is_integer(s) == DigitGroup(Unsigned(s))

Lower(c) ==
    CASE c = "I" -> "i" [] c = "N" -> "n" [] c = "F" -> "f" [] c = "A" -> "a"
      [] c = "T" -> "t" [] c = "Y" -> "y" [] c = "E" -> "e" [] OTHER -> c

LowerSeq(s) == [k \in 1..Len(s) |-> Lower(s[k])]

SpecialFloats == { <<"i","n","f">>, <<"n","a","n">>,
                   <<"i","n","f","i","n","i","t","y">> }

\* The mantissa of a decimal float: digits, digits., .digits or digits.digits
Mantissa(s) ==
    \/ DigitGroup(s)
    \/ \E d \in 1..Len(s) :
          /\ s[d] = "."
          /\ LET a == SubSeq(s, 1, d - 1)
                 b == SubSeq(s, d + 1, Len(s))
             IN  /\ a # <<>> \/ b # <<>>
                 /\ a = <<>> \/ DigitGroup(a)
                 /\ b = <<>> \/ DigitGroup(b)

\* float(s) succeeds.
is_float(s) ==
    LET u == Unsigned(s)
    IN  \/ LowerSeq(u) \in SpecialFloats
        \/ Mantissa(u)
        \/ \E e \in 1..Len(u) :
              /\ u[e] \in {"e", "E"}
              /\ Mantissa(SubSeq(u, 1, e - 1))
              /\ DigitGroup(Unsigned(SubSeq(u, e + 1, Len(u))))

is_string(s) == Len(s) >= 2 /\ s[1] = Quote /\ s[Len(s)] = Quote

\* ------------------------------------------------------------------ values
\* Python objects.  kind is the Python type: int, float, bool, str, None,
\* list, Symbol, String, Lambda, or builtin (a callable of the base
\* environment).  A float is kept as a rational <<num, den>> in lowest
\* terms with den > 0; den = 0 stands for inf (num = 1), -inf (num = -1) and
\* nan (num = 0).  Binary rounding is not modelled.
PyInt(n)     == [kind |-> "int", value |-> n]
PyBool(b)    == [kind |-> "bool", value |-> b]
PyStr(s)     == [kind |-> "str", value |-> s]
None       == [kind |-> "None", value |-> <<>>]
PyList(xs)   == [kind |-> "list", value |-> xs]
Builtin(n) == [kind |-> "builtin", value |-> n]

Abs(n) == IF n < 0 THEN -n ELSE n
Sign(n) == IF n < 0 THEN -1 ELSE IF n > 0 THEN 1 ELSE 0

RECURSIVE GCD(_, _)
GCD(a, b) == IF b = 0 THEN a ELSE GCD(b, a % b)

PyFloat(n, d) ==
    IF d = 0 THEN [kind |-> "float", value |-> <<Sign(n), 0>>]
    ELSE LET g == GCD(Abs(n), Abs(d))
         IN  [kind |-> "float", value |-> <<(Sign(d) * n) \div g, Abs(d) \div g>>]

\* lisp.py:20
Symbol(s) == [kind |-> "Symbol", value |-> s]

\* lisp.py:23
String(s) == [kind |-> "String", value |-> s]

\* lisp.py:26-29 -- a Lambda holds its parameter list and its body and
\* nothing else: no environment is captured.
Lambda(arguments, code) ==
    [kind |-> "Lambda", arguments |-> arguments, code |-> code]

\* ------------------------------------------------------ literal conversion
RECURSIVE DigitsValue(_)
DigitsValue(s) ==
    IF s = <<>> THEN 0
    ELSE LET init == SubSeq(s, 1, Len(s) - 1)
             c    == s[Len(s)]
         IN  IF c = "_" THEN DigitsValue(init)
             ELSE 10 * DigitsValue(init) + DigitVal(c)

RECURSIVE Pow10(_)
Pow10(k) == IF k = 0 THEN 1 ELSE 10 * Pow10(k - 1)

SignOf(s) == IF Len(s) >= 1 /\ s[1] = "-" THEN -1 ELSE 1

\* int(token), for a token is_integer accepts
IntOf(s) == SignOf(s) * DigitsValue(Unsigned(s))

CountDigits(s) == Cardinality({k \in 1..Len(s) : s[k] \in Digits})

\* The value of a mantissa as <<num, den>>
MantissaOf(m) ==
    IF \E d \in 1..Len(m) : m[d] = "."
      THEN LET d == CHOOSE d \in 1..Len(m) : m[d] = "."
               a == SubSeq(m, 1, d - 1)
               b == SubSeq(m, d + 1, Len(m))
           IN  <<DigitsValue(a) * Pow10(CountDigits(b)) + DigitsValue(b),
                 Pow10(CountDigits(b))>>
      ELSE <<DigitsValue(m), 1>>

\* float(token), for a token is_float accepts
FloatOf(s) ==
    LET u  == Unsigned(s)
        sg == SignOf(s)
    IN  IF LowerSeq(u) \in SpecialFloats
          THEN IF LowerSeq(u) = <<"n","a","n">> THEN PyFloat(0, 0) ELSE PyFloat(sg, 0)
        ELSE IF \E e \in 1..Len(u) : u[e] \in {"e", "E"}
          THEN LET e  == CHOOSE e \in 1..Len(u) : u[e] \in {"e", "E"}
                   m  == MantissaOf(SubSeq(u, 1, e - 1))
                   x  == SubSeq(u, e + 1, Len(u))
                   xv == DigitsValue(Unsigned(x))
               IN  IF SignOf(x) < 0 THEN PyFloat(sg * m[1], m[2] * Pow10(xv))
                   ELSE PyFloat(sg * m[1] * Pow10(xv), m[2])
        ELSE LET m == MantissaOf(u) IN PyFloat(sg * m[1], m[2])

\* ------------------------------------------------------------------- parse
\* The outcome of a step that can call fail(): "ok" with a value, or "exit"
\* (fail printed msg and called sys.exit(-1)).
ParseOk(tree, pos) == [st |-> "ok", value |-> tree, pos |-> pos, msg |-> ""]
ParseFail(msg)     == [st |-> "exit", value |-> None, pos |-> 0, msg |-> msg]

\* lisp.py:115-122 -- the node a non-parenthesis token becomes
Atom(token) ==
    IF is_integer(token) THEN PyInt(IntOf(token))
    ELSE IF is_float(token) THEN FloatOf(token)
    ELSE IF is_string(token) THEN String(SubSeq(token, 2, Len(token) - 1))
    ELSE Symbol(token)

\* lisp.py:110-122 -- one turn of the loop of do_parse on tokens[i].  The
\* calls of do_parse that have not returned are p.frames, each the ret of its
\* call, the innermost last; a call that returns hands its list to the loop
\* of its caller (lisp.py:112), and the return of the outermost call ends the
\* parse with pos the index of the next token the iterator would yield.
parse_token(p, tokens, i) ==
    LET token == tokens[i]
        n     == Len(p.frames)
        ret   == p.frames[n]
    IN  CASE p.done -> p
          [] token = <<"(">> -> [p EXCEPT !.frames = Append(p.frames, <<>>)]
          [] token = <<")">> /\ n = 1 ->
               [p EXCEPT !.done = TRUE, !.value = PyList(ret), !.pos = i + 1]
          [] token = <<")">> /\ n > 1 ->
               [p EXCEPT !.frames =
                  Append(SubSeq(p.frames, 1, n - 2),
                         Append(p.frames[n - 1], PyList(ret)))]
          [] OTHER -> [p EXCEPT !.frames[n] = Append(ret, Atom(token))]

\* The loops of lisp.py:110 over the tokens lo..hi, run as the first half and
\* then the second.
RECURSIVE do_parse_loop(_, _, _, _)
do_parse_loop(p, tokens, lo, hi) ==
    CASE lo > hi -> p
      [] lo = hi -> parse_token(p, tokens, lo)
      [] OTHER ->
           LET mid  == (lo + hi) \div 2
               left == do_parse_loop(p, tokens, lo, mid)
           IN  IF Now(left) THEN do_parse_loop(left, tokens, mid + 1, hi)
               ELSE p

\* lisp.py:107-124 -- do_parse reads from the shared iterator, whose next
\* token is tokens[pos]
do_parse(tokens, pos) ==
    LET start == [frames |-> <<<<>>>>, done |-> FALSE, value |-> None,
                  pos |-> pos]
        f     == do_parse_loop(start, tokens, pos, Len(tokens))
    IN  IF f.done THEN ParseOk(f.value, f.pos)
        ELSE ParseFail("Missing closing parenthesis")

\* A parser that refuses tokens after the form it has read.
parse_rejecting_rest(tokens) ==
    IF tokens = <<>> THEN ParseFail("Empty expression")
    ELSE IF tokens[1] # <<"(">> THEN ParseFail("Unexpected token")
    ELSE LET p == do_parse(tokens, 2)
         IN  IF p.st = "ok" /\ p.pos <= Len(tokens)
               THEN ParseFail("Unexpected token")
               ELSE p

\* lisp.py:95-105
parse(tokens) ==
    IF tokens = <<>> THEN ParseFail("Empty expression")
    ELSE IF tokens[1] # <<"(">> THEN ParseFail("Unexpected token")
    ELSE do_parse(tokens, 2)

\* ----------------------------------------------------- host value semantics
\* What the operator module and the host built-ins do on the objects above.
IsNum(v) == v.kind \in {"int", "bool", "float"}

\* A number as a rational <<num, den>>; True and False count as 1 and 0.
Rat(v) ==
    CASE v.kind = "int"   -> <<v.value, 1>>
      [] v.kind = "bool"  -> <<IF v.value THEN 1 ELSE 0, 1>>
      [] v.kind = "float" -> v.value

IsNan(x) == x[2] = 0 /\ x[1] = 0
IsInf(x) == x[2] = 0 /\ x[1] # 0

RatAdd(x, y) ==
    IF IsNan(x) \/ IsNan(y) THEN <<0, 0>>
    ELSE IF IsInf(x) /\ IsInf(y) THEN (IF x[1] = y[1] THEN x ELSE <<0, 0>>)
    ELSE IF IsInf(x) THEN x
    ELSE IF IsInf(y) THEN y
    ELSE <<x[1] * y[2] + y[1] * x[2], x[2] * y[2]>>

RatNeg(x) == <<-x[1], x[2]>>

RatMul(x, y) ==
    IF IsNan(x) \/ IsNan(y) THEN <<0, 0>>
    ELSE IF IsInf(x) \/ IsInf(y) THEN <<Sign(x[1]) * Sign(y[1]), 0>>
    ELSE <<x[1] * y[1], x[2] * y[2]>>

\* x / y for y # 0
RatDiv(x, y) ==
    IF IsNan(x) \/ IsNan(y) THEN <<0, 0>>
    ELSE IF IsInf(x) /\ IsInf(y) THEN <<0, 0>>
    ELSE IF IsInf(x) THEN <<Sign(x[1]) * Sign(y[1]), 0>>
    ELSE IF IsInf(y) THEN <<0, 1>>
    ELSE <<x[1] * y[2], x[2] * y[1]>>

\* "lt", "eq", "gt", or "un" when a nan makes the two unordered
RatCmp(x, y) ==
    IF IsNan(x) \/ IsNan(y) THEN "un"
    ELSE LET l == IF IsInf(x) /\ IsInf(y) THEN x[1] ELSE x[1] * y[2]
             r == IF IsInf(x) /\ IsInf(y) THEN y[1] ELSE y[1] * x[2]
         IN  IF l < r THEN "lt" ELSE IF l > r THEN "gt" ELSE "eq"

\* int op int stays an int, anything with a float is a float
NumResult(a, b, r) ==
    IF a.kind = "float" \/ b.kind = "float" THEN PyFloat(r[1], r[2])
    ELSE PyInt(r[1])

\* Characters in code-point order, for comparing strings
AsciiOrder ==
    << "\t", "\n", " ", "!", "'", "(", ")", "*", "+", "-", ".", "/",
       "0", "1", "2", "3", "4", "5", "6", "7", "8", "9", "<", "=", ">", "?",
       "A", "B", "C", "D", "E", "F", "G", "H", "I", "J", "K", "L", "M",
       "N", "O", "P", "Q", "R", "S", "T", "U", "V", "W", "X", "Y", "Z", "_",
       "a", "b", "c", "d", "e", "f", "g", "h", "i", "j", "k", "l", "m",
       "n", "o", "p", "q", "r", "s", "t", "u", "v", "w", "x", "y", "z" >>

Ord(c) == CHOOSE k \in 1..Len(AsciiOrder) : AsciiOrder[k] = c

\* a == b.  Instances of Symbol, String and Lambda compare by identity in
\* the host; the model, which has no object identity, compares them by
\* content.
RECURSIVE PyEq(_, _)
PyEq(a, b) ==
    IF IsNum(a) /\ IsNum(b) THEN RatCmp(Rat(a), Rat(b)) = "eq"
    ELSE IF a.kind # b.kind THEN FALSE
    ELSE IF a.kind = "list"
      THEN /\ Len(a.value) = Len(b.value)
           /\ \A k \in 1..Len(a.value) : PyEq(a.value[k], b.value[k])
    ELSE a = b

\* Ordering: "lt", "eq", "gt", "un", or "err" when the host raises TypeError
RECURSIVE PyCmp(_, _)
PyCmp(a, b) ==
    IF IsNum(a) /\ IsNum(b) THEN RatCmp(Rat(a), Rat(b))
    ELSE IF a.kind = "str" /\ b.kind = "str" THEN
      LET x == a.value
          y == b.value
          D == {k \in 1..Len(x) : k <= Len(y) /\ x[k] # y[k]}
      IN  IF D = {} THEN (IF Len(x) < Len(y) THEN "lt"
                          ELSE IF Len(x) > Len(y) THEN "gt" ELSE "eq")
          ELSE LET k == CHOOSE k \in D : \A j \in D : k <= j
               IN  IF Ord(x[k]) < Ord(y[k]) THEN "lt" ELSE "gt"
    ELSE IF a.kind = "list" /\ b.kind = "list" THEN
      LET x == a.value
          y == b.value
          D == {k \in 1..Len(x) : k <= Len(y) /\ ~PyEq(x[k], y[k])}
      IN  IF D = {} THEN (IF Len(x) < Len(y) THEN "lt"
                          ELSE IF Len(x) > Len(y) THEN "gt" ELSE "eq")
          ELSE LET k == CHOOSE k \in D : \A j \in D : k <= j
               IN  PyCmp(x[k], y[k])
    ELSE "err"

RECURSIVE Repeat(_, _)
Repeat(xs, n) == IF n <= 0 THEN <<>> ELSE xs \o Repeat(xs, n - 1)

RECURSIVE Flatten(_)
Flatten(xss) == IF xss = <<>> THEN <<>> ELSE Head(xss) \o Flatten(Tail(xss))

\* bool(v): the truth value the host gives an object
Truthy(v) ==
    CASE v.kind = "None"  -> FALSE
      [] v.kind = "bool"  -> v.value
      [] v.kind = "int"   -> v.value # 0
      [] v.kind = "float" -> v.value[1] # 0 \/ v.value[2] = 0
      [] v.kind \in {"str", "list"} -> v.value # <<>>
      [] OTHER -> TRUE

\* The items iterating over v yields (v a list or a str)
Items(v) ==
    IF v.kind = "str" THEN [k \in 1..Len(v.value) |-> PyStr(<<v.value[k]>>)]
    ELSE v.value

\* ---------------------------------------------------------------- built-ins
\* lisp.py:222-242 -- the names of the base environment, as the character
\* sequences the tokenizer produces.
BuiltinNames ==
    { <<"+">>, <<"-">>, <<"*">>, <<"/">>, <<">">>, <<">", "=">>, <<"<">>,
      <<"<", "=">>, <<"=">>, <<"!", "=">>, <<"n","u","l","l","?">>,
      <<"p","r","i","n","t">>, <<"l","i","s","t">>, <<"c","a","r">>,
      <<"c","d","r">>, <<"c","o","n","s">>, <<"l","e","n","g","t","h">>,
      <<"a","p","p","e","n","d">> }

\* The outcome of calling a built-in: a value, or an exception the host
\* raises (an ordinary Exception); out is what it wrote to standard output.
Returns(v)  == [st |-> "ok", value |-> v, msg |-> "", out |-> <<>>]
Raises(exc) == [st |-> "exc", value |-> None, msg |-> exc, out |-> <<>>]

Compare(a, b, accept) ==
    LET c == PyCmp(a, b)
    IN  IF c = "err" THEN Raises("TypeError") ELSE Returns(PyBool(c \in accept))

\* fn(*args) for the built-in bound to name in lisp.py:222-242
CallBuiltin(name, args) ==
    LET n == Len(args)
        a == args[1]
        b == args[2]
    IN
    CASE name = <<"+">> ->
           IF n # 2 THEN Raises("TypeError")
           ELSE IF IsNum(a) /\ IsNum(b)
             THEN Returns(NumResult(a, b, RatAdd(Rat(a), Rat(b))))
           ELSE IF a.kind = b.kind /\ a.kind \in {"str", "list"}
             THEN Returns([kind |-> a.kind, value |-> a.value \o b.value])
           ELSE Raises("TypeError")
      [] name = <<"-">> ->
           IF n # 2 THEN Raises("TypeError")
           ELSE IF IsNum(a) /\ IsNum(b)
             THEN Returns(NumResult(a, b, RatAdd(Rat(a), RatNeg(Rat(b)))))
           ELSE Raises("TypeError")
      [] name = <<"*">> ->
           IF n # 2 THEN Raises("TypeError")
           ELSE IF IsNum(a) /\ IsNum(b)
             THEN Returns(NumResult(a, b, RatMul(Rat(a), Rat(b))))
           ELSE IF a.kind \in {"str", "list"} /\ b.kind \in {"int", "bool"}
             THEN Returns([kind |-> a.kind, value |-> Repeat(a.value, Rat(b)[1])])
           ELSE IF b.kind \in {"str", "list"} /\ a.kind \in {"int", "bool"}
             THEN Returns([kind |-> b.kind, value |-> Repeat(b.value, Rat(a)[1])])
           ELSE Raises("TypeError")
      [] name = <<"/">> ->
           IF n # 2 THEN Raises("TypeError")
           ELSE IF IsNum(a) /\ IsNum(b)
             THEN IF Rat(b) = <<0, 1>> THEN Raises("ZeroDivisionError")
                  ELSE LET q == RatDiv(Rat(a), Rat(b))
                       IN  Returns(PyFloat(q[1], q[2]))
           ELSE Raises("TypeError")
      [] name = <<">">> ->
           IF n # 2 THEN Raises("TypeError") ELSE Compare(a, b, {"gt"})
      [] name = <<">", "=">> ->
           IF n # 2 THEN Raises("TypeError") ELSE Compare(a, b, {"gt", "eq"})
      [] name = <<"<">> ->
           IF n # 2 THEN Raises("TypeError") ELSE Compare(a, b, {"lt"})
      [] name = <<"<", "=">> ->
           IF n # 2 THEN Raises("TypeError") ELSE Compare(a, b, {"lt", "eq"})
      [] name = <<"=">> ->
           IF n # 2 THEN Raises("TypeError") ELSE Returns(PyBool(PyEq(a, b)))
      [] name = <<"!", "=">> ->
           IF n # 2 THEN Raises("TypeError") ELSE Returns(PyBool(~PyEq(a, b)))
      [] name = <<"n","u","l","l","?">> ->
           IF n # 1 THEN Raises("TypeError")
           ELSE Returns(PyBool(a.kind = "None"))
      [] name = <<"p","r","i","n","t">> ->
           IF n # 1 THEN Raises("TypeError")
           ELSE [Returns(None) EXCEPT !.out = <<a>>]
      [] name = <<"l","i","s","t">> -> Returns(PyList(args))
      [] name = <<"c","a","r">> ->
           IF n # 1 THEN Raises("TypeError")
           ELSE IF ~Truthy(a) THEN Returns(None)
           ELSE IF a.kind = "list" THEN Returns(a.value[1])
           ELSE IF a.kind = "str" THEN Returns(PyStr(<<a.value[1]>>))
           ELSE Raises("TypeError")
      [] name = <<"c","d","r">> ->
           IF n # 1 THEN Raises("TypeError")
           ELSE IF a.kind \notin {"list", "str"} THEN Raises("TypeError")
           ELSE IF Len(a.value) > 1
             THEN Returns([kind |-> a.kind, value |-> Tail(a.value)])
           ELSE Returns(PyList(<<>>))
      [] name = <<"c","o","n","s">> ->
           IF n # 2 THEN Raises("TypeError")
           ELSE Returns(PyList(<<a>> \o (IF b.kind = "list" THEN b.value ELSE <<b>>)))
      [] name = <<"l","e","n","g","t","h">> ->
           IF n # 1 THEN Raises("TypeError")
           ELSE IF a.kind \notin {"list", "str"} THEN Raises("TypeError")
           ELSE Returns(PyInt(Len(a.value)))
      [] name = <<"a","p","p","e","n","d">> ->
           IF \E k \in 1..n : args[k].kind \notin {"list", "str"}
             THEN Raises("TypeError")
           ELSE Returns(PyList(Flatten([k \in 1..n |-> Items(args[k])])))

\* lisp.py:222-242 -- the names bound at import: the built-ins and nil.
\* An environment maps a key, itself an object (a str for every name a
\* program can look up), to an object.
base_environment_initial ==
    [k \in {PyStr(nm) : nm \in BuiltinNames} \cup {PyStr(<<"n","i","l">>)} |->
        IF k.value = <<"n","i","l">> THEN None ELSE Builtin(k.value)]

\* --------------------------------------------------------------- evaluator
\* What one evaluation did, in order.  depth is the nesting of eval_expr
\* calls and level the number of closure bodies around the event (level 0
\* is the environment the entry point passed in).
EvEval(expr, depth)    == [ev |-> "eval", depth |-> depth, expr |-> expr]
EvApply(fn, args, depth) ==
    [ev |-> "apply", depth |-> depth, fn |-> fn, args |-> args]
EvDefine(name, value, depth, level) ==
    [ev |-> "define", depth |-> depth, level |-> level, name |-> name,
     value |-> value]
EvCall(fn, args, caller, body, depth) ==
    [ev |-> "call", depth |-> depth, fn |-> fn, args |-> args,
     caller |-> caller, body |-> body]
EvReturn(caller, depth) == [ev |-> "return", depth |-> depth, caller |-> caller]
EvPrint(value, depth)  == [ev |-> "print", depth |-> depth, value |-> value]
EvFail(msg)            == [ev |-> "fail", msg |-> msg]

\* The outcome of an evaluation step: st is "ok" (value returned), "exit"
\* (fail was called: msg printed, SystemExit raised) or "exc" (the host
\* raised the ordinary Exception msg).  env is the content of the
\* environment dict the step was given, as the step left it.
Ok(value, env, log) ==
    [st |-> "ok", value |-> value, msg |-> "", env |-> env, log |-> log]
Exc(msg, env, log) ==
    [st |-> "exc", value |-> None, msg |-> msg, env |-> env, log |-> log]

\* A variant of fail that raises an ordinary exception instead of leaving
\* the interpreter.
fail_raising(s, env, log) ==
    [st |-> "exc", value |-> None, msg |-> s, env |-> env, log |-> log]

\* lisp.py:9-11
fail(s, env, log) ==
    [st |-> "exit", value |-> None, msg |-> s, env |-> env,
     log |-> Append(log, EvFail(s))]

WithLog(pre, r) == [r EXCEPT !.log = pre \o r.log]

\* A store that keeps the binding a key already has.
PutIfAbsent(environment, key, value) ==
    [k \in DOMAIN environment \cup {key} |->
        IF k \in DOMAIN environment THEN environment[k] ELSE value]

\* environment[key] = value
Put(environment, key, value) ==
    [k \in DOMAIN environment \cup {key} |->
        IF k = key THEN value ELSE environment[k]]

\* The dict key a formal parameter is bound under (lisp.py:214): the name of
\* a Symbol, or else the parameter object itself.  A float equal to an int
\* is the same key as that int.
ParamKey(p) ==
    IF p.kind = "Symbol" THEN PyStr(p.value)
    ELSE IF p.kind = "float" /\ p.value[2] = 1 THEN PyInt(p.value[1])
    ELSE p

\* lisp.py:213-215
RECURSIVE BindParams(_, _, _, _)
BindParams(new_env, params, args, i) ==
    IF i > Len(params) THEN new_env
    ELSE BindParams(Put(new_env, ParamKey(params[i]), args[i]), params, args, i + 1)

IsFalse(v) == v.kind = "bool" /\ v.value = FALSE

RECURSIVE eval_expr(_, _, _, _)
RECURSIVE eval_each(_, _, _, _, _)
RECURSIVE apply_fn(_, _, _, _, _)
RECURSIVE eval_each_reversed(_, _, _, _, _)
RECURSIVE eval_if(_, _, _, _)
RECURSIVE eval_define(_, _, _, _)
RECURSIVE eval_begin(_, _, _, _)
RECURSIVE eval_call(_, _, _, _)
RECURSIVE apply_lambda(_, _, _, _, _)

\* A call that starts from the built-in table instead of the caller's
\* bindings.
new_env_from_base(environment) == base_environment_initial

\* lisp.py:207 -- new_env = dict(environment): the body's environment
\* starts as the caller's bindings
new_env_copy(environment) == environment

\* A call that works on the caller's dict itself instead of a copy.
after_call_aliased(environment, body_env) == body_env

\* lisp.py:207, 217 -- new_env is a separate dict, so what the body did to
\* it (body_env) is dropped and the caller's dict is as it was
after_call(environment, body_env) == environment

\* The argument expressions evaluated from the last to the first.
eval_each_reversed(exprs, i, environment, depth, level) ==
    IF i > Len(exprs) THEN Ok(<<>>, environment, <<>>)
    ELSE LET rest == eval_each_reversed(exprs, i + 1, environment, depth, level)
         IN  IF rest.st # "ok" THEN rest
             ELSE LET r == eval_expr(exprs[i], rest.env, depth, level)
                  IN  IF r.st # "ok" THEN WithLog(rest.log, r)
                      ELSE Ok(<<r.value>> \o rest.value, r.env,
                              rest.log \o r.log)

\* lisp.py:178-180 and the comprehensions of lisp.py:190 and 195: evaluate
\* exprs[i..] left to right in environment; value is the list of results.
eval_each(exprs, i, environment, depth, level) ==
    IF i > Len(exprs) THEN Ok(<<>>, environment, <<>>)
    ELSE LET r == eval_expr(exprs[i], environment, depth, level)
         IN  IF r.st # "ok" THEN r
             ELSE LET rest == eval_each(exprs, i + 1, r.env, depth, level)
                  IN  IF rest.st # "ok" THEN WithLog(r.log, rest)
                      ELSE Ok(<<r.value>> \o rest.value, rest.env,
                              r.log \o rest.log)

\* lisp.py:206-217 -- the call of a user-defined lambda
apply_lambda(fn, args, environment, depth, level) ==
    LET here    == <<EvApply(fn, args, depth)>>
        new_env == BindParams(new_env_copy(environment),
                              fn.arguments.value, args, 1)
        r       == eval_expr(fn.code, new_env, depth + 1, level + 1)
        caller  == after_call(environment, r.env)
        call    == here \o <<EvCall(fn, args, environment, new_env, depth)>>
    IN  CASE fn.arguments.kind # "list" -> Exc("TypeError", environment, here)
          [] Len(args) # Len(fn.arguments.value) ->
               fail("Mismatched number of arguments to lambda", environment,
                    here)
          [] \E i \in 1..Len(args) : fn.arguments.value[i].kind = "list" ->
               Exc("TypeError", environment, here)
          [] OTHER ->
               [r EXCEPT !.env = caller,
                         !.log = call \o r.log \o
                                 (IF r.st = "ok"
                                    THEN <<EvReturn(caller, depth)>>
                                    ELSE <<>>)]

\* lisp.py:202-203 -- the outcome b of a built-in, as the outcome of apply_fn
builtin_outcome(b, environment, here, depth) ==
    [st |-> b.st, value |-> b.value, msg |-> b.msg, env |-> environment,
     log |-> here \o [k \in 1..Len(b.out) |-> EvPrint(b.out[k], depth)]]

\* lisp.py:200-219
apply_fn(fn, args, environment, depth, level) ==
    LET here == <<EvApply(fn, args, depth)>>
    IN  CASE fn.kind = "builtin" ->
               builtin_outcome(CallBuiltin(fn.value, args), environment, here,
                               depth)
          [] fn.kind = "Lambda" ->
               apply_lambda(fn, args, environment, depth, level)
          [] OTHER -> fail("Cannot apply non-function", environment, here)

\* lisp.py:152-166
eval_if(expr, environment, depth, level) ==
    LET here  == <<EvEval(expr, depth)>>
        items == expr.value
        c     == eval_expr(items[2], environment, depth + 1, level)
    IN  CASE Len(items) < 3 ->
               fail("If requires at least condition and then clause",
                    environment, here)
          [] c.st # "ok" -> WithLog(here, c)
          [] ~IsFalse(c.value) ->
               WithLog(here \o c.log,
                       eval_expr(items[3], c.env, depth + 1, level))
          [] Len(items) = 4 ->
               WithLog(here \o c.log,
                       eval_expr(items[4], c.env, depth + 1, level))
          [] OTHER -> Ok(None, c.env, here \o c.log)

\* lisp.py:168-174
eval_define(expr, environment, depth, level) ==
    LET here  == <<EvEval(expr, depth)>>
        items == expr.value
        name  == PyStr(items[2].value)
        v     == eval_expr(items[3], environment, depth + 1, level)
    IN  CASE Len(items) # 3 ->
               fail("Define requires name and value", environment, here)
          [] items[2].kind \notin {"Symbol", "String"} ->
               Exc("AttributeError", environment, here)
          [] v.st # "ok" -> WithLog(here, v)
          [] OTHER ->
               Ok(v.value, Put(v.env, name, v.value),
                  here \o v.log \o <<EvDefine(name, v.value, depth, level)>>)

\* lisp.py:176-180
eval_begin(expr, environment, depth, level) ==
    LET here == <<EvEval(expr, depth)>>
        rs   == eval_each(expr.value, 2, environment, depth + 1, level)
    IN  IF rs.st # "ok" THEN WithLog(here, rs)
        ELSE Ok(IF rs.value = <<>> THEN None ELSE rs.value[Len(rs.value)],
                rs.env, here \o rs.log)

\* lisp.py:187-196 -- a function call
eval_call(expr, environment, depth, level) ==
    LET here == <<EvEval(expr, depth)>>
        fn   == eval_expr(expr.value[1], environment, depth + 1, level)
        args == eval_each(expr.value, 2, fn.env, depth + 1, level)
    IN  CASE fn.st # "ok" -> WithLog(here, fn)
          [] args.st # "ok" -> WithLog(here \o fn.log, args)
          [] OTHER ->
               WithLog(here \o fn.log \o args.log,
                       apply_fn(fn.value, args.value, args.env, depth, level))

\* The keyword a list starts with (lisp.py:144-182), or <<>> when it starts
\* with something else
Keyword(expr) ==
    IF /\ expr.value[1].kind = "Symbol"
       /\ expr.value[1].value \in
            { <<"l","a","m","b","d","a">>, <<"i","f">>,
              <<"d","e","f","i","n","e">>, <<"b","e","g","i","n">>,
              <<"q","u","o","t","e">> }
      THEN expr.value[1].value
      ELSE <<>>

\* lisp.py:127-198
eval_expr(expr, environment, depth, level) ==
    LET here  == <<EvEval(expr, depth)>>
        items == expr.value
    IN
    CASE depth > MaxDepth -> Exc("RecursionError", environment, <<>>)
      [] expr.kind \in {"int", "bool", "float", "str"} ->
           Ok(expr, environment, here)
      [] expr.kind = "String" -> Ok(PyStr(expr.value), environment, here)
      [] expr.kind = "Symbol" ->
           IF PyStr(expr.value) \notin DOMAIN environment
             THEN fail("Couldn't find symbol", environment, here)
             ELSE Ok(environment[PyStr(expr.value)], environment, here)
      [] expr.kind # "list" -> Ok(expr, environment, here)
      [] items = <<>> -> Ok(PyList(<<>>), environment, here)
      [] Keyword(expr) = <<"l","a","m","b","d","a">> ->
           IF Len(items) < 3
             THEN fail("Lambda requires arguments and body", environment, here)
             ELSE Ok(Lambda(items[2], items[3]), environment, here)
      [] Keyword(expr) = <<"i","f">> ->
           eval_if(expr, environment, depth, level)
      [] Keyword(expr) = <<"d","e","f","i","n","e">> ->
           eval_define(expr, environment, depth, level)
      [] Keyword(expr) = <<"b","e","g","i","n">> ->
           eval_begin(expr, environment, depth, level)
      [] Keyword(expr) = <<"q","u","o","t","e">> ->
           IF Len(items) # 2
             THEN fail("Quote requires exactly one argument", environment, here)
             ELSE Ok(items[2], environment, here)
      [] OTHER -> eval_call(expr, environment, depth, level)

\* ------------------------------------------------------------------ inputs
\* The program texts fed to the REPL and to run_file.
\*  
L_blank == << " " >>

\* (define x 1)
L_define_x == << "(", "d", "e", "f", "i", "n", "e", " ", "x", " ", "1", ")" >>

\* (define x (+ x 1))
L_bump_x == << "(", "d", "e", "f", "i", "n", "e", " ", "x", " ", "(", "+",
    " ", "x", " ", "1", ")", ")" >>

\* (list x)
L_show_x == << "(", "l", "i", "s", "t", " ", "x", ")" >>

\* (define f (lambda () y))
L_define_f == << "(", "d", "e", "f", "i", "n", "e", " ", "f", " ", "(", "l",
    "a", "m", "b", "d", "a", " ", "(", ")", " ", "y", ")", ")" >>

\* ((lambda (y) (f)) 7)
L_call_f == << "(", "(", "l", "a", "m", "b", "d", "a", " ", "(", "y", ")",
    " ", "(", "f", ")", ")", " ", "7", ")" >>

\* (define g ((lambda (z) (lambda () z)) 5))
L_define_g == << "(", "d", "e", "f", "i", "n", "e", " ", "g", " ", "(", "(",
    "l", "a", "m", "b", "d", "a", " ", "(", "z", ")", " ", "(", "l", "a",
    "m", "b", "d", "a", " ", "(", ")", " ", "z", ")", ")", " ", "5", ")",
    ")" >>

\* (g)
L_call_g == << "(", "g", ")" >>

\* ((lambda (a) (define x a)) 9)
L_local == << "(", "(", "l", "a", "m", "b", "d", "a", " ", "(", "a", ")",
    " ", "(", "d", "e", "f", "i", "n", "e", " ", "x", " ", "a", ")", ")",
    " ", "9", ")" >>

\* (car)
L_car == << "(", "c", "a", "r", ")" >>

\* (list 1
L_open == << "(", "l", "i", "s", "t", " ", "1" >>

\* x
L_atom == << "x" >>

\* ((lambda (a b) a) (define w 1))
L_arity == << "(", "(", "l", "a", "m", "b", "d", "a", " ", "(", "a", " ",
    "b", ")", " ", "a", ")", " ", "(", "d", "e", "f", "i", "n", "e", " ",
    "w", " ", "1", ")", ")" >>

\* (1 (define w 1))
L_apply_int == << "(", "1", " ", "(", "d", "e", "f", "i", "n", "e", " ",
    "w", " ", "1", ")", ")" >>

\* (define x)
L_define_short == << "(", "d", "e", "f", "i", "n", "e", " ", "x", ")" >>

\* (define 1 2)
L_define_int == << "(", "d", "e", "f", "i", "n", "e", " ", "1", " ", "2",
    ")" >>

\* (if (> 1 2) (define p 1) (define q 2))
L_if_false == << "(", "i", "f", " ", "(", ">", " ", "1", " ", "2", ")", " ",
    "(", "d", "e", "f", "i", "n", "e", " ", "p", " ", "1", ")", " ", "(",
    "d", "e", "f", "i", "n", "e", " ", "q", " ", "2", ")", ")" >>

\* (if 0 (define p 1) (define q 2))
L_if_zero == << "(", "i", "f", " ", "0", " ", "(", "d", "e", "f", "i", "n",
    "e", " ", "p", " ", "1", ")", " ", "(", "d", "e", "f", "i", "n", "e",
    " ", "q", " ", "2", ")", ")" >>

\* (if nil (define p 1) (define q 2))
L_if_nil == << "(", "i", "f", " ", "n", "i", "l", " ", "(", "d", "e", "f",
    "i", "n", "e", " ", "p", " ", "1", ")", " ", "(", "d", "e", "f", "i",
    "n", "e", " ", "q", " ", "2", ")", ")" >>

\* (if (> 1 2) (define p 1))
L_if_no_else == << "(", "i", "f", " ", "(", ">", " ", "1", " ", "2", ")",
    " ", "(", "d", "e", "f", "i", "n", "e", " ", "p", " ", "1", ")", ")" >>

\* (if (> 1 2) 1 2 3)
L_if_extra == << "(", "i", "f", " ", "(", ">", " ", "1", " ", "2", ")", " ",
    "1", " ", "2", " ", "3", ")" >>

\* (+ (define x 3) x)
L_order == << "(", "+", " ", "(", "d", "e", "f", "i", "n", "e", " ", "x",
    " ", "3", ")", " ", "x", ")" >>

\* ((lambda (a) (list a v)) (define v 5))
L_arg_define == << "(", "(", "l", "a", "m", "b", "d", "a", " ", "(", "a",
    ")", " ", "(", "l", "i", "s", "t", " ", "a", " ", "v", ")", ")", " ",
    "(", "d", "e", "f", "i", "n", "e", " ", "v", " ", "5", ")", ")" >>

\* (h (define w 1))
L_bad_head == << "(", "h", " ", "(", "d", "e", "f", "i", "n", "e", " ", "w",
    " ", "1", ")", ")" >>

\* (define x 4) (define y 2))
L_two_forms == << "(", "d", "e", "f", "i", "n", "e", " ", "x", " ", "4",
    ")", " ", "(", "d", "e", "f", "i", "n", "e", " ", "y", " ", "2", ")",
    ")" >>

\* (begin (define r (lambda () (r))) (r))
L_loop == << "(", "b", "e", "g", "i", "n", " ", "(", "d", "e", "f", "i",
    "n", "e", " ", "r", " ", "(", "l", "a", "m", "b", "d", "a", " ", "(",
    ")", " ", "(", "r", ")", ")", ")", " ", "(", "r", ")", ")" >>

\* (print 'hi')
L_print == << "(", "p", "r", "i", "n", "t", " ", "'", "h", "i", "'", ")" >>

Catalogue ==
    { L_blank,
      L_define_x,
      L_bump_x,
      L_show_x,
      L_define_f,
      L_call_f,
      L_define_g,
      L_call_g,
      L_local,
      L_car,
      L_open,
      L_atom,
      L_arity,
      L_apply_int,
      L_define_short,
      L_define_int,
      L_if_false,
      L_if_zero,
      L_if_nil,
      L_if_no_else,
      L_if_extra,
      L_order,
      L_arg_define,
      L_bad_head,
      L_two_forms,
      L_loop,
      L_print }


\* The program files run_file is given
Files == {L_blank, L_define_x, L_car, L_open, L_two_forms}

\* The characters of the exhaustively enumerated texts
Alphabet == {"(", ")", " ", "'", "a", "1"}

Texts == UNION {[1..n -> Alphabet] : n \in 0..MaxTextLen}

\* ------------------------------------------------------------- the process
VARIABLES
    pc,                \* "main": no execution in progress; "repl": inside
                       \* the loop of repl(); "exited": sys.exit was called
    base_environment,  \* the module-level dict of lisp.py:222
    env,               \* the local env of repl() (lisp.py:246)
    exit_status,       \* the status sys.exit was called with, 0 before that
    stdout,            \* what the last step wrote to standard output
    last,              \* what the last step read and did
    lines,             \* input lines read by the current session
    runs,              \* executions (repl or run_file) started so far
    defined            \* the latest value each name was given by a define
                       \* evaluated in the session environment

vars == <<pc, base_environment, env, exit_status, stdout, last, lines, runs,
          defined>>

NoEnv == [k \in {} |-> None]

OutText(msg)  == [ev |-> "text", msg |-> msg]
OutError(msg) == [ev |-> "Error:", msg |-> msg]

\* What an evaluation wrote: the values print was given and fail's message
Written(log) == SelectSeq(log, LAMBDA e : e.ev \in {"print", "fail"})

\* str.strip() leaves nothing
IsBlank(s) == \A k \in 1..Len(s) : s[k] \in {" ", "\t", "\n", "\r", "\f"}

\* The tokenize / parse / eval_expr pipeline of lisp.py:254-257 and
\* lisp.py:274-277, run on text against environment.
Skipped(environment) == [Ok(None, environment, <<>>) EXCEPT !.st = "skip"]

\* lisp.py:256-257 and lisp.py:276-277 -- parsed is what parse gave
Evaluated(tokens, parsed, environment) ==
    IF parsed.st # "ok"
      THEN [tokens |-> tokens, parsed |-> None,
            res |-> fail(parsed.msg, environment, <<>>)]
      ELSE [tokens |-> tokens, parsed |-> parsed.value,
            res |-> eval_expr(parsed.value, environment, 0, 0)]

\* lisp.py:255-257 and lisp.py:275-277 -- tokens is what tokenize gave
Parsed(tokens, environment) ==
    IF tokens = <<>>
      THEN [tokens |-> tokens, parsed |-> None, res |-> Skipped(environment)]
      ELSE Evaluated(tokens, parse(tokens), environment)

Pipeline(text, environment) == Parsed(tokenize(text), environment)

Record(op, text, before, run) ==
    [op |-> op, text |-> text, tokens |-> run.tokens, parsed |-> run.parsed,
     st |-> run.res.st, value |-> run.res.value, msg |-> run.res.msg,
     log |-> run.res.log, before |-> before]

NoRun == [tokens |-> <<>>, parsed |-> None, res |-> Skipped(NoEnv)]

\* The defines an evaluation performed in the environment it was given,
\* folded in order onto d.
RECURSIVE Redefine(_, _, _)
Redefine(d, log, i) ==
    IF i > Len(log) THEN d
    ELSE IF log[i].ev = "define" /\ log[i].level = 0
      THEN Redefine(Put(d, log[i].name, log[i].value), log, i + 1)
    ELSE Redefine(d, log, i + 1)

Init ==
    /\ pc = "main"
    /\ base_environment = base_environment_initial
    /\ env = NoEnv
    /\ exit_status = 0
    /\ stdout = <<>>
    /\ last = Record("none", <<>>, NoEnv, NoRun)
    /\ lines = 0
    /\ runs = 0
    /\ defined = NoEnv

\* lisp.py:244-247 -- repl() is entered
ReplStart ==
    /\ pc = "main"
    /\ runs < MaxRuns
    /\ pc' = "repl"
    /\ env' = base_environment
    /\ stdout' = <<OutText("Lisp Interpreter")>>
    /\ last' = Record("repl", <<>>, base_environment, NoRun)
    /\ lines' = 0
    /\ runs' = runs + 1
    /\ defined' = NoEnv
    /\ UNCHANGED <<base_environment, exit_status>>

\* lisp.py:253-261 -- what the loop does with the outcome run of the line
LineRan(user_input, run) ==
    /\ last' = Record("line", user_input, env, run)
    /\ defined' = Redefine(defined, run.res.log, 1)
    /\ env' = run.res.env
    /\ CASE run.res.st = "exit" ->
              /\ pc' = "exited"
              /\ exit_status' = -1
              /\ stdout' = Written(run.res.log)
         [] run.res.st = "exc" ->
              /\ stdout' = Append(Written(run.res.log), OutError(run.res.msg))
              /\ UNCHANGED <<pc, exit_status>>
         [] OTHER ->
              /\ stdout' = Written(run.res.log) \o
                   (IF run.res.value.kind # "None"
                      THEN <<EvPrint(run.res.value, 0)>> ELSE <<>>)
              /\ UNCHANGED <<pc, exit_status>>

\* lisp.py:249-261 -- one turn of the loop on the line user_input
ReplLine(user_input) ==
    /\ pc = "repl"
    /\ lines < MaxLines
    /\ lines' = lines + 1
    /\ IF IsBlank(user_input)
         THEN /\ last' = Record("line", user_input, env, NoRun)
              /\ stdout' = <<>>
              /\ UNCHANGED <<pc, env, exit_status, defined>>
         ELSE LineRan(user_input, Pipeline(user_input, env))
    /\ UNCHANGED <<base_environment, runs>>

\* lisp.py:262-267 -- end of input or an interrupt at the prompt
ReplEnd ==
    /\ pc = "repl"
    /\ pc' = "main"
    /\ env' = NoEnv
    /\ stdout' = <<OutText("Goodbye!")>>
    /\ last' = Record("end", <<>>, env, NoRun)
    /\ defined' = NoEnv
    /\ UNCHANGED <<base_environment, exit_status, lines, runs>>

\* lisp.py:274-281 -- what run_file does with the outcome run of the file
FileRan(contents, run) ==
    /\ last' = Record("file", contents, base_environment, run)
    /\ base_environment' = run.res.env
    /\ CASE run.res.st = "exit" ->
              /\ pc' = "exited"
              /\ exit_status' = -1
              /\ stdout' = Written(run.res.log)
         [] run.res.st = "exc" ->
              /\ stdout' = Append(Written(run.res.log), OutError(run.res.msg))
              /\ UNCHANGED <<pc, exit_status>>
         [] OTHER ->
              /\ stdout' = Written(run.res.log)
              /\ UNCHANGED <<pc, exit_status>>

\* lisp.py:269-281 -- run_file on a file holding contents
RunFile(contents) ==
    /\ pc = "main"
    /\ runs < MaxRuns
    /\ runs' = runs + 1
    /\ FileRan(contents, Pipeline(contents, base_environment))
    /\ UNCHANGED <<env, lines, defined>>

\* lisp.py:278-279 -- run_file on a name no file has
RunMissingFile ==
    /\ pc = "main"
    /\ runs < MaxRuns
    /\ runs' = runs + 1
    /\ stdout' = <<OutText("File not found:")>>
    /\ last' = Record("nofile", <<>>, base_environment, NoRun)
    /\ UNCHANGED <<pc, base_environment, env, exit_status, lines, defined>>

Next ==
    \/ ReplStart
    \/ \E user_input \in Catalogue : ReplLine(user_input)
    \/ ReplEnd
    \/ \E contents \in Files : RunFile(contents)
    \/ RunMissingFile

Spec == Init /\ [][Next]_vars

\* One run_file call, and one REPL line, on every short text over Alphabet
NextText ==
    \/ runs = 0 /\ \E contents \in Texts : RunFile(contents)
    \/ runs = 0 /\ ReplStart
    \/ lines = 0 /\ pc = "repl" /\ \E user_input \in Texts : ReplLine(user_input)

SpecText == Init /\ [][NextText]_vars


\* ============================================================== properties
\* ---- shapes of the input, stated without the scanner or the parser
QuotePositions(text) == {k \in 1..Len(text) : text[k] = Quote}

NthQuote(text, m) ==
    CHOOSE k \in QuotePositions(text) :
        Cardinality({j \in QuotePositions(text) : j <= k}) = m

\* The string literals of a text: from each odd-numbered quote to the next
StringLiterals(text) ==
    [m \in 1..(Cardinality(QuotePositions(text)) \div 2) |->
        SubSeq(text, NthQuote(text, 2 * m - 1), NthQuote(text, 2 * m))]

QuoteTokens(tokens) ==
    SelectSeq(tokens, LAMBDA t : \E k \in 1..Len(t) : t[k] = Quote)

\* Parentheses open after the first k tokens
OpenAfter(tokens, k) ==
    Cardinality({j \in 1..k : tokens[j] = <<"(">>})
      - Cardinality({j \in 1..k : tokens[j] = <<")">>})

\* The token streams that start a form and close it
StartsForm(tokens) ==
    /\ tokens # <<>>
    /\ tokens[1] = <<"(">>
    /\ \E k \in 1..Len(tokens) : OpenAfter(tokens, k) = 0

\* Index of the ")" that closes the first form
FirstClose(tokens) ==
    CHOOSE k \in 1..Len(tokens) :
        /\ OpenAfter(tokens, k) = 0
        /\ \A j \in 1..(k - 1) : OpenAfter(tokens, j) # 0

Ran == last.op \in {"line", "file"} /\ ~IsBlank(last.text)

\* C9 (as claimed): every string literal of the text, from its opening
\* quote to the next quote, is one token of its own, in order: the m-th
\* token holding a quote is exactly the m-th literal, neither split nor
\* joined to the word before it.
C9_LiteralIsOneToken ==
    Ran =>
      \A m \in DOMAIN StringLiterals(last.text) :
         /\ m <= Len(QuoteTokens(last.tokens))
         /\ QuoteTokens(last.tokens)[m] = StringLiterals(last.text)[m]

\* C10: when the tokens start a form and close it, parse succeeds and
\* returns the tree of the tokens up to that first closing parenthesis,
\* whatever follows it; the run reports no parser error and evaluates that
\* one tree and nothing else at top level.
C10_OnlyFirstFormIsRead ==
    (Ran /\ StartsForm(last.tokens)) =>
      LET first == parse(SubSeq(last.tokens, 1, FirstClose(last.tokens)))
      IN  /\ first.st = "ok"
          /\ last.parsed = first.value
          /\ last.msg \notin {"Empty expression", "Unexpected token",
                              "Missing closing parenthesis"}
          /\ SelectSeq(last.log, LAMBDA e : e.ev = "eval" /\ e.depth = 0)
               = <<EvEval(first.value, 0)>>

\* C10 witness: a run whose tokens go on after the first form closed, and
\* which was evaluated to a value.
C10_Witness ==
    /\ Ran /\ StartsForm(last.tokens)
    /\ FirstClose(last.tokens) < Len(last.tokens)
    /\ last.st = "ok"

\* ---- reading the record of an evaluation
\* The environment the last execution worked on, as it is now
Current == IF last.op = "line" THEN env ELSE base_environment

Events(kind) == {j \in 1..Len(last.log) : last.log[j].ev = kind}

\* The call a return event answers: the latest call before it at its depth
CallOf(j) ==
    CHOOSE i \in Events("call") :
        /\ i < j /\ last.log[i].depth = last.log[j].depth
        /\ \A m \in Events("call") :
              (m < j /\ last.log[m].depth = last.log[j].depth) => m <= i

\* C1: when a closure call returns, the caller's environment holds exactly
\* the bindings it held when apply_fn was entered, whatever the body defined
\* and whatever the parameters were called; so an execution changes its
\* environment only through the defines evaluated directly in it.
C1_CallLeavesCallerUntouched ==
    Ran =>
      /\ \A j \in Events("return") :
            last.log[j].caller = last.log[CallOf(j)].caller
      /\ Current = Redefine(last.before, last.log, 1)

\* C1 witness: a call that bound a parameter and defined a name in its body
\* has returned.
C1_Witness ==
    /\ Ran /\ last.st = "ok"
    /\ Events("return") # {}
    /\ \E i \in Events("define") : last.log[i].level > 0
    /\ \E i \in Events("call") : last.log[i].args # <<>>

Bound(name, environment) == PyStr(name) \in DOMAIN environment

\* The environment a call event ought to give the body: the caller's
\* bindings, with each parameter name bound to its argument (the last one
\* when a name is repeated).
BodyOf(e) ==
    LET params == e.fn.arguments.value
        keys   == {ParamKey(params[i]) : i \in 1..Len(params)}
        at(k)  == CHOOSE i \in 1..Len(params) :
                     /\ ParamKey(params[i]) = k
                     /\ \A m \in 1..Len(params) : ParamKey(params[m]) = k => m <= i
    IN  [k \in DOMAIN e.caller \cup keys |->
            IF k \in keys THEN e.args[at(k)] ELSE e.caller[k]]

NoParams(body) == Lambda(PyList(<<>>), body)

\* C2: the body of every closure call runs in the caller's environment of
\* that moment with the parameters bound over it.  A closure reading y,
\* called where only the caller binds y, gets the caller's y; a closure
\* made inside (lambda (z) ...) and called where z is not bound fails to
\* resolve z.
C2_BodySeesCallerEnvironment ==
    Ran =>
      /\ \A i \in Events("call") : last.log[i].body = BodyOf(last.log[i])
      /\ ( /\ last.text = L_call_f
           /\ Bound(<<"f">>, last.before)
           /\ last.before[PyStr(<<"f">>)] = NoParams(Symbol(<<"y">>))
           /\ ~Bound(<<"y">>, last.before) )
         => (last.st = "ok" /\ last.value = PyInt(7))
      /\ ( /\ last.text = L_call_g
           /\ Bound(<<"g">>, last.before)
           /\ last.before[PyStr(<<"g">>)] = NoParams(Symbol(<<"z">>))
           /\ ~Bound(<<"z">>, last.before) )
         => (last.st = "exit" /\ last.msg = "Couldn't find symbol")

\* C2 witness: the closure made under (lambda (z) ...) with z = 5 was called
\* from the top level, where z is not bound.
C2_Witness ==
    /\ last.op = "line" /\ last.text = L_call_g
    /\ Bound(<<"g">>, last.before)
    /\ last.before[PyStr(<<"g">>)] = NoParams(Symbol(<<"z">>))
    /\ last.st = "exit"

\* C3 (as claimed): while the process lives, the base environment is the
\* built-in table plus nil, and every execution starts from exactly those
\* bindings.
C3_BaseEnvironmentIsNeverWritten ==
    pc # "exited" =>
      /\ base_environment = base_environment_initial
      /\ last.op \in {"repl", "file"} => last.before = base_environment_initial

\* C4 (as claimed): a REPL line that fails to parse or to evaluate leaves
\* the session running, with Error: printed and the session environment
\* still there for the next line.
C4_ReplSurvivesAFailedLine ==
    (last.op = "line" /\ last.st \in {"exit", "exc"}) =>
      /\ pc = "repl"
      /\ stdout # <<>> /\ stdout[Len(stdout)].ev = "Error:"
      /\ DOMAIN last.before \subseteq DOMAIN env

\* ---- kinds of failure, read off the input and the last thing attempted
SpecialForms ==
    { <<"l","a","m","b","d","a">>, <<"i","f">>, <<"d","e","f","i","n","e">>,
      <<"b","e","g","i","n">>, <<"q","u","o","t","e">> }

IsForm(expr, keyword) ==
    /\ expr.kind = "list" /\ expr.value # <<>>
    /\ expr.value[1].kind = "Symbol" /\ expr.value[1].value = keyword

Failed == Ran /\ last.st \in {"exit", "exc"}

\* The last thing the evaluation attempted before it failed
Attempt ==
    LET done == SelectSeq(last.log, LAMBDA e : e.ev # "fail")
    IN  IF done = <<>> THEN [ev |-> "none"] ELSE done[Len(done)]

MalformedTokens ==
    /\ Failed /\ last.tokens # <<>> /\ ~StartsForm(last.tokens)

UnresolvedSymbol ==
    /\ Failed /\ Attempt.ev = "eval" /\ Attempt.expr.kind = "Symbol"

\* A special form with the wrong number of elements
WrongFormLength ==
    /\ Failed /\ Attempt.ev = "eval"
    /\ LET e == Attempt.expr
       IN  \/ IsForm(e, <<"l","a","m","b","d","a">>) /\ Len(e.value) < 3
           \/ IsForm(e, <<"i","f">>) /\ Len(e.value) < 3
           \/ IsForm(e, <<"d","e","f","i","n","e">>) /\ Len(e.value) # 3
           \/ IsForm(e, <<"q","u","o","t","e">>) /\ Len(e.value) # 2

\* A define whose name is not a symbol
WrongDefineName ==
    /\ Failed /\ Attempt.ev = "eval"
    /\ IsForm(Attempt.expr, <<"d","e","f","i","n","e">>)
    /\ Len(Attempt.expr.value) = 3
    /\ Attempt.expr.value[2].kind \notin {"Symbol", "String"}

WrongClosureArity ==
    /\ Failed /\ Attempt.ev = "apply" /\ Attempt.fn.kind = "Lambda"
    /\ Attempt.fn.arguments.kind = "list"
    /\ Len(Attempt.fn.arguments.value) # Len(Attempt.args)

\* The number of arguments a built-in takes; -1 when it takes any number
Arity(name) ==
    IF name \in { <<"l","i","s","t">>, <<"a","p","p","e","n","d">> } THEN -1
    ELSE IF name \in { <<"n","u","l","l","?">>, <<"p","r","i","n","t">>,
                       <<"c","a","r">>, <<"c","d","r">>,
                       <<"l","e","n","g","t","h">> } THEN 1
    ELSE 2

WrongBuiltinArity ==
    /\ Failed /\ Attempt.ev = "apply" /\ Attempt.fn.kind = "builtin"
    /\ Arity(Attempt.fn.value) # -1
    /\ Arity(Attempt.fn.value) # Len(Attempt.args)

NotCallable ==
    /\ Failed /\ Attempt.ev = "apply"
    /\ Attempt.fn.kind \notin {"Lambda", "builtin"}

\* The process printed a message and ended with a non-zero status, and the
\* failure neither gave a value nor reached an except clause
HardFailure ==
    /\ last.st = "exit"
    /\ pc = "exited" /\ exit_status # 0
    /\ stdout # <<>> /\ stdout[Len(stdout)] = EvFail(last.msg)
    /\ \A k \in 1..Len(stdout) : stdout[k].ev # "Error:"

DefineRan ==
    /\ Ran /\ last.st = "ok"
    /\ IsForm(last.parsed, <<"d","e","f","i","n","e">>)

\* The name that define form binds, and its value expression
DefinedName == PyStr(last.parsed.value[2].value)
DefinedFrom == last.parsed.value[3]

\* define binds in place and returns the bound value, and the session
\* resolves every name to the value its latest top-level define gave it
DefineBinds ==
    /\ DefineRan =>
         /\ DefinedName \in DOMAIN Current
         /\ Current[DefinedName] = last.value
    /\ pc = "repl" =>
         \A k \in DOMAIN defined : k \in DOMAIN env /\ env[k] = defined[k]
    /\ ( /\ last.op = "line" /\ last.text = L_show_x
         /\ PyStr(<<"x">>) \in DOMAIN defined )
       => ( /\ last.st = "ok"
            /\ last.value = PyList(<<defined[PyStr(<<"x">>)]>>) )

\* This step gives the session the very line it has just evaluated, a
\* define that succeeded
SameDefineAgain ==
    /\ DefineRan /\ last.op = "line"
    /\ last'.op = "line" /\ last'.text = last.text

\* A value expression that reads nothing: a number, a string or a lambda
ReadsNothing(expr) ==
    \/ expr.kind \in {"int", "float", "String"}
    \/ IsForm(expr, <<"l","a","m","b","d","a">>)

\* C6 (as claimed): define binds the name in place and returns the bound
\* value, later lines of the session resolve the name to the value defined
\* last, and evaluating the same define once more succeeds and leaves the
\* binding as it was.
C6_SameDefineAgainChangesNothing ==
    [][ /\ DefineBinds'
        /\ SameDefineAgain =>
             (last'.st = "ok" /\ env'[DefinedName] = env[DefinedName]) ]_vars

\* C6 (amended): define binds the name in place and returns the bound value,
\* later lines of the session resolve the name to the value defined last,
\* and evaluating the same define once more succeeds and leaves the
\* environment as it was when its value expression is a number, a string or
\* a lambda; any other value expression is evaluated again, and the name is
\* bound to what it gives this time.
C6_DefineOfAConstantAgainChangesNothing ==
    [][ /\ DefineBinds'
        /\ (SameDefineAgain /\ ReadsNothing(DefinedFrom)) =>
             (last'.st = "ok" /\ env' = env) ]_vars

\* C6 witness: the session has evaluated (define x 1) twice in a row and
\* holds x = 1.
C6_Witness ==
    /\ last.op = "line" /\ last.text = L_define_x /\ last.st = "ok"
    /\ PyStr(<<"x">>) \in DOMAIN last.before
    /\ last.before[PyStr(<<"x">>)] = PyInt(1)
    /\ env[PyStr(<<"x">>)] = PyInt(1)
    /\ lines >= 2

\* ---- if
\* The last step evaluated, at top level, an if form that has a condition
\* and a then-clause
IfRan ==
    /\ Ran /\ last.parsed.kind = "list"
    /\ IsForm(last.parsed, <<"i","f">>)
    /\ Len(last.parsed.value) >= 3

\* C7 (as claimed): the condition of an if form is evaluated once; when its
\* value is not the Boolean false the then-clause is evaluated and gives
\* the result, otherwise the else-clause does when there is one, otherwise
\* the result is the null value; nothing else of the form is evaluated.
C7_IfTakesExactlyOneBranch ==
    IfRan =>
      LET items == last.parsed.value
          c     == eval_expr(items[2], last.before, 1, 0)
          taken == IF ~IsFalse(c.value) THEN <<items[3]>>
                   ELSE IF Len(items) >= 4 THEN <<items[4]>>
                   ELSE <<>>
          b     == IF taken = <<>> THEN Ok(None, c.env, <<>>)
                   ELSE eval_expr(taken[1], c.env, 1, 0)
          inner == SelectSeq(last.log, LAMBDA e : e.ev = "eval" /\ e.depth = 1)
      IN  c.st = "ok" =>
            /\ inner = <<EvEval(items[2], 1)>> \o
                       [k \in 1..Len(taken) |-> EvEval(taken[k], 1)]
            /\ last.st = b.st /\ last.value = b.value
            /\ Current = b.env

\* ---- function application
\* A non-empty list whose head is no special-form keyword
IsApplication(expr) ==
    /\ expr.kind = "list" /\ expr.value # <<>>
    /\ ~(expr.value[1].kind = "Symbol" /\ expr.value[1].value \in SpecialForms)

\* The first event after i that is outside the evaluation begun by the
\* eval event i
EndOf(i) ==
    LET later == {j \in (i + 1)..Len(last.log) :
                    /\ last.log[j].ev = "eval"
                    /\ last.log[j].depth <= last.log[i].depth}
    IN  IF later = {} THEN Len(last.log) + 1
        ELSE CHOOSE j \in later : \A m \in later : j <= m

\* The apply events of the application evaluated by the eval event i
AppliedAt(i) ==
    {j \in (i + 1)..(EndOf(i) - 1) :
        last.log[j].ev = "apply" /\ last.log[j].depth = last.log[i].depth}

\* The elements of the application of event i that were evaluated before it
\* was applied (or before it failed), in the order they were evaluated
ElementsEvaluated(i) ==
    LET stop == IF AppliedAt(i) = {} THEN EndOf(i)
                ELSE CHOOSE j \in AppliedAt(i) : TRUE
        evs  == SelectSeq(SubSeq(last.log, i + 1, stop - 1),
                          LAMBDA e : /\ e.ev = "eval"
                                     /\ e.depth = last.log[i].depth + 1)
    IN  [k \in 1..Len(evs) |-> evs[k].expr]

\* C8: an application evaluates its head, then its other elements from left
\* to right, and only then applies the callable: by then every element has
\* been evaluated, in order, and a closure called from the top level gets
\* the environment with every define the elements performed; when an
\* element fails, the elements after it are not evaluated and nothing is
\* applied.
C8_HeadThenArgumentsThenApply ==
    Ran =>
      /\ \A i \in Events("eval") :
            IsApplication(last.log[i].expr) =>
              LET items == last.log[i].expr.value
                  elems == ElementsEvaluated(i)
              IN  /\ Cardinality(AppliedAt(i)) <= 1
                  /\ Len(elems) <= Len(items)
                  /\ elems = SubSeq(items, 1, Len(elems))
                  /\ AppliedAt(i) # {} => elems = items
                  /\ AppliedAt(i) = {} => last.st # "ok"
      /\ \A j \in Events("call") :
            last.log[j].depth = 0 =>
              last.log[j].caller =
                 Redefine(last.before, SubSeq(last.log, 1, j), 1)
      /\ last.text = L_order =>
            (last.st = "ok" /\ last.value = PyInt(6))
      /\ (last.text = L_bad_head /\ ~Bound(<<"h">>, last.before)) =>
            (last.st = "exit" /\ Events("define") = {})
      /\ last.text = L_arity =>
            ( /\ last.st = "exit" /\ Events("define") # {}
              /\ \A j \in Events("define") : \E a \in Events("apply") : j < a )

\* C8 witness: a closure whose body reads v was applied to (define v 5)
\* where v was not bound, and returned the list of 5 and 5.
C8_Witness ==
    /\ Ran /\ last.text = L_arg_define
    /\ ~Bound(<<"v">>, last.before)
    /\ last.st = "ok"
    /\ last.value = PyList(<<PyInt(5), PyInt(5)>>)

====
